---- MODULE Spec2Model ----
(***************************************************************************)
(* ServiceNow Embedding Diagnostics MCP server (servicenow_mcp_server.py). *)
(*                                                                         *)
(* The server is single threaded and synchronous: a tool call runs to      *)
(* completion (every outbound GET included) and returns before the next    *)
(* tool call starts.  The only state that survives a call is the pair of   *)
(* initialization flags.                                                   *)
(*                                                                         *)
(* Strings are sequences of symbols.  "http" is one symbol and every other *)
(* symbol is a single character, so str.startswith('http') is "the first   *)
(* symbol is http" and str.endswith('/') is "the last symbol is /".        *)
(* Fixed text the code pastes in (query keywords, table names) is one      *)
(* symbol; the path /api/now/table/ keeps its first slash and its first    *)
(* segment apart, because they can end up next to the endpoint's own text. *)
(* Credentials only travel to the remote, whose answer is an input here.   *)
(***************************************************************************)
EXTENDS Integers, Sequences, FiniteSets, TLC

VARIABLES
    server_initialized, \* module global server_initialized
    initialized,        \* sn_session.initialized
    pc,                 \* "idle": waiting for a tool call; "returned": a call just ended
    call,               \* the tool call that just ended: tool, arguments, remote answers, flags before
    outcome,            \* how that call ended: a returned value or a raised exception
    calls,              \* the ServiceNowSession methods that call ran: method, result, GETs issued
    raw,                \* text under normalization (text specification)
    norms,              \* results of applying connect's normalization to raw, repeatedly
    swapped,            \* raw with the two normalization steps applied in the other order
    query               \* the sysparm_query check_cors_rule builds for raw as domain

vars == <<server_initialized, initialized, pc, call, outcome, calls, raw, norms, swapped, query>>

----
\* Bounds of the model.

\* Longest text body (in symbols) the text specification draws.
MaxLen == 3
\* Most rows in one remote result array.
MaxRows == 2
\* How many times the normalization is re-applied to its own result.
MaxApply == 2

----
\* Text.

Symbols == {"http", "s", ":", "/", "a"}

HTTPS == <<"http", "s", ":", "/", "/">>
HTTP == <<"http", ":", "/", "/">>

Texts(n) == UNION {[1..k -> Symbols] : k \in 0..n}

StartsWith(s, p) == Len(s) >= Len(p) /\ SubSeq(s, 1, Len(p)) = p

\* str.startswith('http')
StartsWithHttp(s) == StartsWith(s, <<"http">>)

\* str.endswith('/')
EndsWithSlash(s) == Len(s) > 0 /\ s[Len(s)] = "/"

\* if instance_url.endswith('/'): instance_url = instance_url[:-1]
StripSlash(s) == IF EndsWithSlash(s) THEN SubSeq(s, 1, Len(s) - 1) ELSE s

\* if not instance_url.startswith('http'): instance_url = f"https://{instance_url}"
PrependScheme(s) == IF ~StartsWithHttp(s) THEN HTTPS \o s ELSE s

\* connect's normalization: strip first, then prepend.
Normalize(s) == PrependScheme(StripSlash(s))

\* The sysparm_query check_cors_rule builds from domain.
CorsQuery(domain) ==
    IF domain # <<>>
    THEN IF ~StartsWithHttp(domain)
         THEN LET d == StripSlash(domain)
              IN <<"domain=">> \o HTTPS \o d \o <<"^ORdomain=">> \o HTTP \o d
                     \o <<"^ORdomain=">> \o d
         ELSE <<"domain=">> \o domain
    ELSE <<>>

----
\* The remote API and the HTTP client.

OK == 200

\* A row of a result array: the columns the checks read with .get, "None" standing
\* for a column the row does not carry.
ActiveVals == {"true", "false", "active"}
ValueVals == {"true", "false"}
NameVals == {"None", "n"}
Absent == {"None"}

RowsWith(actives, values, tag_names, sys_ids, names) ==
    [active : actives, value : values, tag_name : tag_names, sys_id : sys_ids,
     name : names]

\* The rows of each table the checks query.  A row varies in the columns the checks
\* on its table read; a macroponent row carries its name column or not.
PropertyRows == RowsWith(Absent, ValueVals, Absent, Absent, Absent)
PluginRows == RowsWith(ActiveVals, Absent, Absent, Absent, Absent)
CorsRows == RowsWith(ActiveVals, Absent, Absent, Absent, Absent)
MacroponentRows == RowsWith(ActiveVals, Absent, {"tag"}, {"id"}, NameVals)

RowSeqs(rows) == UNION {[1..n -> rows] : n \in 0..MaxRows}

\* A response body: not JSON, JSON without a "result" key, or JSON with a result array.
\* response.json() on a body text, a sequence of characters.  The texts drawn are made
\* of braces, blanks and characters no JSON value starts with, so the only value the
\* decoder can find is the empty object; positions count from 0 as the decoder's do.
Blank == " "

\* The decoder skips whitespace: the first position from i on that holds no blank.
RECURSIVE SkipBlanks(_, _)
SkipBlanks(text, i) ==
    IF i < Len(text) /\ text[i + 1] = Blank THEN SkipBlanks(text, i + 1) ELSE i

At(text, i) == IF i < Len(text) THEN text[i + 1] ELSE ""

\* str(JSONDecodeError): "<msg>: line 1 column <pos + 1> (char <pos>)"; no text drawn
\* has a line break.
DecodeError(msg, pos) ==
    [ok |-> FALSE,
     error |-> <<msg, ": line 1 column ", ToString(pos + 1), " (char ", ToString(pos), ")">>]

Decoded == [ok |-> TRUE, error |-> <<>>]

\* After the value: anything but trailing whitespace is extra data.
DecodeEnd(text, end) == IF end # Len(text) THEN DecodeError("Extra data", end) ELSE Decoded

\* After "{" and whitespace: "}" closes the empty object, anything else had to be the
\* opening quote of a key.
DecodeObject(text, j) ==
    IF At(text, j) = "}" THEN DecodeEnd(text, SkipBlanks(text, j + 1))
    ELSE DecodeError("Expecting property name enclosed in double quotes", j)

\* After leading whitespace: a value has to start here.
DecodeValue(text, i) ==
    IF At(text, i) = "{" THEN DecodeObject(text, SkipBlanks(text, i + 1))
    ELSE DecodeError("Expecting value", i)

\* json.loads(text)
Decode(text) == DecodeValue(text, SkipBlanks(text, 0))

\* A body given by its text: JSON or not as the decoder finds it, and without a
\* "result" key.
Unparsed(text) == [json |-> Decode(text).ok, hasResult |-> FALSE, rows |-> <<>>, text |-> text]

\* The empty body.
NotJson == Unparsed(<<>>)

\* The body {}.
NoResultKey == Unparsed(<<"{", "}">>)

\* A body {"result": [...]}, given by its rows.
ResultBody(rs) ==
    [json |-> TRUE, hasResult |-> TRUE, rows |-> rs, text |-> <<"{\"result\": [...]}">>]

BodyTexts ==
    {<<>>, <<"<", "h", "t", "m", "l", ">">>, <<"{">>, <<"{", "}">>, <<"{", "}", " ", "x">>,
     <<" ", "{", " ">>}

Bodies(rows) ==
    {Unparsed(t) : t \in BodyTexts} \cup {ResultBody(rs) : rs \in RowSeqs(rows)}

Http(status, body) == [kind |-> "http", status |-> status, body |-> body, msg |-> <<>>]
Raised(msg) == [kind |-> "exc", status |-> 0, body |-> NotJson, msg |-> msg]

FailStatuses == {201, 401, 500}

Refused == Raised(<<"Connection refused">>)

\* What the remote may do with a request for rows that reaches it.
Responses(rows) ==
    {Http(OK, b) : b \in Bodies(rows)} \cup {Http(s, NotJson) : s \in FailStatuses}
        \cup {Refused}

ProbeResponses ==
    {Http(OK, ResultBody(<<>>))} \cup {Http(s, NotJson) : s \in FailStatuses}
        \cup {Refused}

\* The answers the remote holds ready for one check: to its probe and to its own query.
\* The query's answer is only enumerated when the probe is answered 200.
Exchanges(queries) ==
    {<<p, q>> : p \in {Http(OK, ResultBody(<<>>))}, q \in queries}
        \cup {<<p, Raised(<<"unasked">>)>> : p \in ProbeResponses \ {Http(OK, ResultBody(<<>>))}}

\* session.get(url) as requests runs it before anything is sent:
\* PreparedRequest.prepare_url (which parses with urllib3's parse_url), then
\* Session.get_adapter.  A URL that passes both goes to the remote.

\* The symbols that are made of letters only.
Letters == {"http", "s", "a", "api"}

\* The symbols an authority can be made of: everything up to the next /, ? or #.
AuthoritySymbols == Letters \cup {":"}

SchemeHttp == <<"http">>
SchemeHttps == <<"http", "s">>

\* ':' in url
HasColon(url) == \E i \in 1..Len(url) : url[i] = ":"

\* The length of the longest prefix of s made of symbols of S.
RECURSIVE Run(_, _)
Run(s, S) == IF s # <<>> /\ Head(s) \in S THEN 1 + Run(Tail(s), S) ELSE 0

After(s, k) == SubSeq(s, k + 1, Len(s))

\* parse_url's scheme: the leading letters when a ':' follows them, else none.
SchemeLen(url, k) == IF k >= 1 /\ k < Len(url) /\ url[k + 1] = ":" THEN k ELSE 0

\* What follows "scheme:" starts with // : the URL has an authority.
HasAuthority(rest) == Len(rest) >= 2 /\ rest[1] = "/" /\ rest[2] = "/"

\* urllib3's host[:port] pattern: no ':' in the host, and the port (empty or digits,
\* and no symbol is a digit) can only be empty.
ValidHostPort(authority) ==
    \A i \in 1..Len(authority) : authority[i] = ":" => i = Len(authority)

\* The host of a valid host[:port].
HostOf(authority) ==
    IF authority # <<>> /\ authority[Len(authority)] = ":"
    THEN SubSeq(authority, 1, Len(authority) - 1)
    ELSE authority

\* MissingSchema
NoSchemeSupplied(url) ==
    <<"Invalid URL '">> \o url \o <<"': No scheme supplied. Perhaps you meant https://">>
        \o url \o <<"?">>

\* InvalidURL, no host
NoHostSupplied(url) == <<"Invalid URL '">> \o url \o <<"': No host supplied">>

\* InvalidURL, from urllib3's LocationParseError
FailedToParse(url) == <<"Failed to parse: ">> \o url

\* InvalidSchema, raised by get_adapter for the URL the request was prepared with
NoAdapter(url) == <<"No connection adapters were found for '">> \o url \o <<"'">>

\* The URL prepare_url rebuilds: scheme://host and the rest, an empty port dropped.
Rebuilt(scheme, host, tail) == scheme \o <<":", "/", "/">> \o host \o tail

\* A parsed URL with an authority: its host-port is checked, then its host, and
\* get_adapter only knows http:// and https://.
WithAuthority(url, scheme, authority, tail) ==
    IF ~ValidHostPort(authority) THEN FailedToParse(url)
    ELSE IF HostOf(authority) = <<>> THEN NoHostSupplied(url)
    ELSE IF scheme \notin {SchemeHttp, SchemeHttps}
         THEN NoAdapter(Rebuilt(scheme, HostOf(authority), tail))
         ELSE <<>>

\* The part of a parsed URL after "scheme://": the authority runs to the next /.
FromAuthority(url, scheme, hier, n) ==
    WithAuthority(url, scheme, SubSeq(hier, 1, n), After(hier, n))

\* A parsed URL with a scheme: no // after it means no host.
WithScheme(url, scheme, rest) ==
    IF ~HasAuthority(rest) THEN NoHostSupplied(url)
    ELSE FromAuthority(url, scheme, After(rest, 2), Run(After(rest, 2), AuthoritySymbols))

\* prepare_url after parse_url: no scheme is MissingSchema.
Parsed(url, k) ==
    IF k = 0 THEN NoSchemeSupplied(url)
    ELSE WithScheme(url, SubSeq(url, 1, k), After(url, k + 1))

\* The message of the exception session.get raises for url before sending anything,
\* <<>> when it raises none.  prepare_url leaves a URL that has a ':' and does not
\* start with http as it is, and get_adapter then refuses it.
ClientError(url) ==
    IF HasColon(url) /\ ~StartsWithHttp(url) THEN NoAdapter(url)
    ELSE Parsed(url, SchemeLen(url, Run(url, Letters)))

Sendable(url) == ClientError(url) = <<>>

\* What session.get gives for an error message err of the client and the remote's answer.
Reply(err, answer) == IF err = <<>> THEN answer ELSE Raised(err)

\* session.get(url, params=params): the remote's answer, or the client's own exception.
Get(url, params, answer) ==
    [url |-> url, params |-> params, reply |-> Reply(ClientError(url), answer)]

\* f"{instance_url}/api/now/table/<table>"
Table(instance_url, table) == instance_url \o <<"/", "api", "/", "now/table/", table>>

NoParams == [none |-> TRUE]

----
\* Diagnostic results.

\* str(status_code) inside f"HTTP {response.status_code}"
StatusText(status) == ToString(status)

HttpErrorBlank(status) == <<"HTTP ">>

\* f"HTTP {response.status_code}"
HttpError(status) == <<"HTTP ", StatusText(status)>>

Failure(error) == [success |-> FALSE, error |-> error]

\* The shared tail of every check: try: get; 200 -> parse; else HTTP error; except -> str(e).
\* parsed is the check's result for a 200 answer whose body is JSON, or a Failure
\* carrying the message of the exception the parsing raised.
Interpret(reply, parsed) ==
    IF reply.kind = "exc" THEN Failure(reply.msg)
    ELSE IF reply.status = OK
         THEN IF reply.body.json THEN parsed ELSE Failure(Decode(reply.body.text).error)
         ELSE Failure(HttpError(reply.status))

\* The {} that data.get("result", [{}]) supplies when the body has no "result" key:
\* every .get on it gives None.
EmptyRecord ==
    [active |-> "None", value |-> "None", tag_name |-> "None", sys_id |-> "None",
     name |-> "None"]

\* data.get("result", [{}])[0] raises IndexError when "result" is present and empty.
FirstRowRaises(body) == body.hasResult /\ body.rows = <<>>

\* data.get("result", [{}])[0]
FirstRow(body) == IF body.hasResult THEN body.rows[1] ELSE EmptyRecord

\* response.json().get("result", [])
ResultRows(body) == IF body.hasResult THEN body.rows ELSE <<>>

IndexError == Failure(<<"list index out of range">>)

----
\* ServiceNowSession.  Every method yields its result, the GETs it issued and the flags.
\* A value a method uses more than once is computed once and handed to a helper.

\* The element of a set of one.
The(S) == CHOOSE x \in S : TRUE

Flags(s, i) == [server_initialized |-> s, initialized |-> i]

\* mark_server_initialized()
mark_server_initialized(st) == Flags(TRUE, st.initialized)

\* ServiceNowSession.mark_initialized()
mark_initialized(st) == Flags(st.server_initialized, TRUE)

Done(result, gets, st) == [result |-> result, gets |-> gets, st |-> st]

\* if not server_initialized: mark_server_initialized()
EnsureServer(st) == IF ~st.server_initialized THEN mark_server_initialized(st) ELSE st

\* if not self.initialized: self.mark_initialized()
EnsureSession(st) == IF ~st.initialized THEN mark_initialized(st) ELSE st

\* connect's try block, given what session.get(test_url) produced.
Probed(get, st) ==
    Done(IF get.reply.kind = "exc" THEN Failure(get.reply.msg)
         ELSE IF get.reply.status = OK
              THEN [success |-> TRUE, message |-> "Connected"]
              ELSE Failure(HttpError(get.reply.status)),
         <<get>>, st)

\* ServiceNowSession.connect
connect(st, instance_url, answer) ==
    The({Probed(get, EnsureSession(EnsureServer(st))) :
            get \in {Get(Table(Normalize(instance_url), "sys_properties")
                             \o <<"?sysparm_limit=1">>,
                         NoParams, answer)}})

SucceededAlways(result) == TRUE

\* connect_result.get("success")
Succeeded(result) == result.success

\* After connect returned c: hand back its failure, or issue the check's own GET on
\* the table, the URL built from the instance_url the caller passed.
Continue(c, instance_url, answer, table, params) ==
    IF ~Succeeded(c.result)
    THEN [connected |-> FALSE, c |-> c, get |-> c.gets[1]]
    ELSE [connected |-> TRUE, c |-> c,
          get |-> Get(Table(instance_url, table), params, answer)]

\* The head every check shares: connect, then Continue.
Query(st, instance_url, answers, table, params) ==
    The({Continue(c, instance_url, answers[2], table, params) :
            c \in {connect(st, instance_url, answers[1])}})

\* The tail every check shares: connect's failure, or the interpreted answer.
\* parsed is the check's reading of a JSON body answered with 200.
Conclude(q, parsed) ==
    IF ~q.connected THEN q.c
    ELSE Done(Interpret(q.get.reply, parsed), q.c.gets \o <<q.get>>, q.c.st)

\* enabled = data.get("result", [{}])[0].get("value") == "true"
ParseEnabled(body) ==
    IF FirstRowRaises(body) THEN IndexError
    ELSE [success |-> TRUE, enabled |-> (FirstRow(body).value = "true")]

\* the part of check_embeddables_enabled after its connect and GET
ConcludeEnabled(q) == Conclude(q, ParseEnabled(q.get.reply.body))

\* ServiceNowSession.check_embeddables_enabled
check_embeddables_enabled(st, instance_url, answers) ==
    The({ConcludeEnabled(q) :
            q \in {Query(st, instance_url, answers, "sys_properties",
                     [sysparm_query |-> <<"name=glide.uxf.lib.embeddables.enabled">>,
                      sysparm_fields |-> "name,value"])}})

\* result = data.get("result", [{}])[0]; active = result.get("active") == "active"
ParsePlugin(body) ==
    IF FirstRowRaises(body) THEN IndexError
    ELSE [success |-> TRUE, active |-> (FirstRow(body).active = "active")]

\* the part of _check_plugin_status after its connect and GET
ConcludePlugin(q) == Conclude(q, ParsePlugin(q.get.reply.body))

\* ServiceNowSession._check_plugin_status
_check_plugin_status(st, instance_url, answers, plugin_id) ==
    The({ConcludePlugin(q) :
            q \in {Query(st, instance_url, answers, "v_plugin",
                     [sysparm_query |-> <<"id=", plugin_id>>,
                      sysparm_fields |-> "id,active,name"])}})

\* ServiceNowSession.check_embeddables_plugin
check_embeddables_plugin(st, instance_url, answers) ==
    _check_plugin_status(st, instance_url, answers, "com.glide.ux.embeddables")

\* ServiceNowSession.check_client_access_plugin
check_client_access_plugin(st, instance_url, answers) ==
    _check_plugin_status(st, instance_url, answers, "com.glide.security.client_access")

\* exists = bool(data); active = any(rule.get("active") == "true" for rule in data)
CorsSummary(data) ==
    [success |-> TRUE, exists |-> (data # <<>>),
     active |-> (\E i \in 1..Len(data) : data[i].active = "true")]

ParseCors(body) == CorsSummary(ResultRows(body))

\* the part of check_cors_rule after its connect and GET
ConcludeCors(q) == Conclude(q, ParseCors(q.get.reply.body))

\* ServiceNowSession.check_cors_rule
check_cors_rule(st, instance_url, answers, domain) ==
    The({ConcludeCors(q) :
            q \in {Query(st, instance_url, answers, "sys_cors_rule",
                     [sysparm_query |-> CorsQuery(domain), sysparm_fields |-> "domain,active"])}})

CountTrue(es) == Cardinality({i \in 1..Len(es) : es[i].active})

\* the dict check_all_embeddable_activated returns for its list
AllSummary(embeddables) ==
    [success |-> TRUE, total_count |-> Len(embeddables),
     active_count |-> CountTrue(embeddables), embeddables |-> embeddables]

ParseAll(body) ==
    AllSummary([i \in 1..Len(ResultRows(body)) |->
                   [name |-> ResultRows(body)[i].tag_name,
                    active |-> (ResultRows(body)[i].active = "true"),
                    sys_id |-> ResultRows(body)[i].sys_id]])

\* the part of check_all_embeddable_activated after its connect and GET
ConcludeAll(q) == Conclude(q, ParseAll(q.get.reply.body))

\* ServiceNowSession.check_all_embeddable_activated
check_all_embeddable_activated(st, instance_url, answers) ==
    The({ConcludeAll(q) :
            q \in {Query(st, instance_url, answers, "sys_ux_embeddable_macroponent",
                     [sysparm_fields |-> "tag_name,active,sys_id"])}})

AllActiveVacuous(embeddables) == \A i \in 1..Len(embeddables) : embeddables[i].active

\* all(e["active"] for e in embeddables) if embeddables else False
AllActive(embeddables) ==
    IF embeddables # <<>>
    THEN \A i \in 1..Len(embeddables) : embeddables[i].active
    ELSE FALSE

\* the dict check_embeddable_activated returns for its list
ActivatedSummary(embeddables) ==
    [success |-> TRUE, found |-> (Len(embeddables) > 0),
     count |-> Len(embeddables), all_active |-> AllActive(embeddables),
     embeddables |-> embeddables]

\* one dict per row: tag_name, name, active == "true", sys_id
ParseActivated(body) ==
    ActivatedSummary([i \in 1..Len(ResultRows(body)) |->
                         [name |-> ResultRows(body)[i].tag_name,
                          internal_name |-> ResultRows(body)[i].name,
                          active |-> (ResultRows(body)[i].active = "true"),
                          sys_id |-> ResultRows(body)[i].sys_id]])

\* the part of check_embeddable_activated after its connect and GET
ConcludeActivated(q) == Conclude(q, ParseActivated(q.get.reply.body))

\* ServiceNowSession.check_embeddable_activated
check_embeddable_activated(st, instance_url, answers, macroponent_name) ==
    The({ConcludeActivated(q) :
            q \in {Query(st, instance_url, answers, "sys_ux_embeddable_macroponent",
                     [sysparm_query |-> <<"macroponent.nameSTARTSWITH">> \o macroponent_name,
                      sysparm_fields |-> "tag_name,active,sys_id"])}})

\* One entry of the log of session methods a tool call ran.
Ran(method, d) == [method |-> method, result |-> d.result, gets |-> d.gets]

NeedsConnectAlways(flag) == TRUE

\* if not self.initialized: (run_all_checks connects before the checks)
NeedsConnect(flag) == ~flag

\* run_all_checks, line by line: each step takes what ran so far (lead: the leading
\* connect, if any; e1..e4: the checks) and runs the next check from the flags the
\* last one left.  pre answers the leading connect, answers[k] the k-th check.
Report(lead, e1, e2, e3, e4, e5) ==
    [result |->
         [embeddables_enabled |-> e1.result, embeddables_plugin |-> e2.result,
          client_access_plugin |-> e3.result, cors_rule |-> e4.result,
          embeddable_activation |-> e5.result],
     calls |->
         lead \o <<Ran("check_embeddables_enabled", e1),
                   Ran("check_embeddables_plugin", e2),
                   Ran("check_client_access_plugin", e3),
                   Ran("check_cors_rule", e4),
                   Ran("check_all_embeddable_activated", e5)>>,
     st |-> e5.st]

Step5(lead, e1, e2, e3, e4, instance_url, answers) ==
    The({Report(lead, e1, e2, e3, e4, e5) :
            e5 \in {check_all_embeddable_activated(e4.st, instance_url, answers[5])}})

Step4(lead, e1, e2, e3, instance_url, domain, answers) ==
    The({Step5(lead, e1, e2, e3, e4, instance_url, answers) :
            e4 \in {check_cors_rule(e3.st, instance_url, answers[4], domain)}})

Step3(lead, e1, e2, instance_url, domain, answers) ==
    The({Step4(lead, e1, e2, e3, instance_url, domain, answers) :
            e3 \in {check_client_access_plugin(e2.st, instance_url, answers[3])}})

Step2(lead, e1, instance_url, domain, answers) ==
    The({Step3(lead, e1, e2, instance_url, domain, answers) :
            e2 \in {check_embeddables_plugin(e1.st, instance_url, answers[2])}})

Step1(lead, st, instance_url, domain, answers) ==
    The({Step2(lead, e1, instance_url, domain, answers) :
            e1 \in {check_embeddables_enabled(st, instance_url, answers[1])}})

\* The leading connect of run_all_checks: its log entry and the flags it leaves.
Lead(c0) == [log |-> <<Ran("connect", c0)>>, st |-> c0.st]

Started(lead, instance_url, domain, answers) ==
    Step1(lead.log, lead.st, instance_url, domain, answers)

\* ServiceNowSession.run_all_checks
run_all_checks(st, instance_url, domain, pre, answers) ==
    The({Started(lead, instance_url, domain, answers) :
            lead \in {IF NeedsConnect(st.initialized)
                      THEN Lead(connect(st, instance_url, pre))
                      ELSE [log |-> <<>>, st |-> st]}})

----
\* The tool layer (the @mcp.tool() functions) and the inputs the model draws.

Endpoints ==
    {<<>>, <<"a">>, <<"a", "/">>, HTTPS \o <<"a">>, HTTPS \o <<"a", "/">>,
     <<"a", ":", "a">>, HTTPS}

Domains ==
    {<<>>, <<"a">>, <<"a", "/">>, HTTPS \o <<"a">>, <<"http", "a">>}

MacroponentNames == {<<>>, <<"a">>}

\* run_all_checks draws from smaller sets: five checks multiply them.
ReportEndpoints == {HTTPS \o <<"a">>, <<"a", "/">>}
ReportDomains == {<<>>, <<"a">>}
ReportProbes == {Http(OK, ResultBody(<<>>)), Http(401, NotJson)}
ReportQueries ==
    {Http(OK, ResultBody(<<>>)),
     Http(OK, ResultBody(<<[active |-> "true", value |-> "true", tag_name |-> "tag",
                            sys_id |-> "id", name |-> "n"]>>)),
     Http(500, NotJson)}
ReportExchanges ==
    {x \in Exchanges(ReportQueries) : x[1] \in ReportProbes}

Unasked == Raised(<<"unasked">>)

NoCall ==
    [tool |-> "none", instance_url |-> <<>>, domain |-> <<>>, macroponent_name |-> <<>>,
     pre |-> Unasked, answers |-> <<>>, was |-> Flags(FALSE, FALSE)]

NoOutcome == [kind |-> "none", value |-> [none |-> TRUE]]

Args(tool, instance_url, domain, macroponent_name, pre, answers) ==
    [tool |-> tool, instance_url |-> instance_url, domain |-> domain,
     macroponent_name |-> macroponent_name, pre |-> pre, answers |-> answers,
     was |-> Flags(server_initialized, initialized)]

\* A tool function that returns what one session method returned.
Returns(method, d) ==
    [outcome |-> [kind |-> "returned", value |-> d.result],
     calls |-> <<Ran(method, d)>>, st |-> d.st]

\* run_all_checks returns the report; its log is the methods the session ran.
ReturnsReport(r) ==
    [outcome |-> [kind |-> "returned", value |-> r.result], calls |-> r.calls, st |-> r.st]

\* A tool function whose body raises before it calls anything.
Raises(exception, st) ==
    [outcome |-> [kind |-> "raised", value |-> [exception |-> exception]],
     calls |-> <<>>, st |-> st]

\* What the tool call c does when the flags are st.
Invoke(c, st) ==
    CASE c.tool = "connect_to_instance" ->
            Returns("connect", connect(st, c.instance_url, c.answers[1][1]))
      [] c.tool = "check_embeddables_enabled" ->
            Returns("check_embeddables_enabled",
                    check_embeddables_enabled(st, c.instance_url, c.answers[1]))
      [] c.tool = "check_embeddables_plugin" ->
            Returns("_check_plugin_status",
                    _check_plugin_status(st, c.instance_url, c.answers[1],
                                         "com.glide.ux.embeddables"))
      [] c.tool = "check_client_access_plugin" ->
            \* sn_session.check_plugin_status: ServiceNowSession has no such attribute
            Raises("AttributeError", st)
      [] c.tool = "check_cors_rule" ->
            Returns("check_cors_rule",
                    check_cors_rule(st, c.instance_url, c.answers[1], c.domain))
      [] c.tool = "check_all_embeddable_activated" ->
            Returns("check_all_embeddable_activated",
                    check_all_embeddable_activated(st, c.instance_url, c.answers[1]))
      [] c.tool = "check_embeddable_activated" ->
            Returns("check_embeddable_activated",
                    check_embeddable_activated(st, c.instance_url, c.answers[1],
                                               c.macroponent_name))
      [] c.tool = "run_all_checks" ->
            ReturnsReport(run_all_checks(st, c.instance_url, c.domain, c.pre, c.answers))

TextIdle == UNCHANGED <<raw, norms, swapped, query>>

\* The server runs the tool call c to its end.
Serve(c) ==
    \E r \in {Invoke(c, Flags(server_initialized, initialized))} :
        /\ pc' = "returned"
        /\ call' = c
        /\ outcome' = r.outcome
        /\ calls' = r.calls
        /\ server_initialized' = r.st.server_initialized
        /\ initialized' = r.st.initialized
        /\ TextIdle

connect_to_instance ==
    /\ pc = "idle"
    /\ \E u \in Endpoints, p \in ProbeResponses :
           Serve(Args("connect_to_instance", u, <<>>, <<>>, Unasked, <<<<p, Unasked>>>>))

tool_check_embeddables_enabled ==
    /\ pc = "idle"
    /\ \E u \in Endpoints, x \in Exchanges(Responses(PropertyRows)) :
           Serve(Args("check_embeddables_enabled", u, <<>>, <<>>, Unasked, <<x>>))

tool_check_embeddables_plugin ==
    /\ pc = "idle"
    /\ \E u \in Endpoints, x \in Exchanges(Responses(PluginRows)) :
           Serve(Args("check_embeddables_plugin", u, <<>>, <<>>, Unasked, <<x>>))

tool_check_client_access_plugin ==
    /\ pc = "idle"
    /\ \E u \in Endpoints, x \in Exchanges(Responses(PluginRows)) :
           Serve(Args("check_client_access_plugin", u, <<>>, <<>>, Unasked, <<x>>))

tool_check_cors_rule ==
    /\ pc = "idle"
    /\ \E u \in Endpoints, d \in Domains, x \in Exchanges(Responses(CorsRows)) :
           Serve(Args("check_cors_rule", u, d, <<>>, Unasked, <<x>>))

tool_check_all_embeddable_activated ==
    /\ pc = "idle"
    /\ \E u \in Endpoints, x \in Exchanges(Responses(MacroponentRows)) :
           Serve(Args("check_all_embeddable_activated", u, <<>>, <<>>, Unasked, <<x>>))

tool_check_embeddable_activated ==
    /\ pc = "idle"
    /\ \E u \in Endpoints, n \in MacroponentNames,
          x \in Exchanges(Responses(MacroponentRows)) :
           Serve(Args("check_embeddable_activated", u, <<>>, n, Unasked, <<x>>))

tool_run_all_checks ==
    /\ pc = "idle"
    /\ \E u \in ReportEndpoints, d \in ReportDomains,
          p \in (IF NeedsConnect(initialized) THEN ReportProbes ELSE {Unasked}),
          xs \in [1..5 -> ReportExchanges] :
           Serve(Args("run_all_checks", u, d, <<>>, p, xs))

\* The caller has its answer; the server waits for the next tool call.
NextCall ==
    /\ pc = "returned"
    /\ pc' = "idle"
    /\ call' = NoCall
    /\ outcome' = NoOutcome
    /\ calls' = <<>>
    /\ UNCHANGED <<server_initialized, initialized>>
    /\ TextIdle

SetFlags(st) ==
    /\ pc = "idle"
    /\ server_initialized' = st.server_initialized
    /\ initialized' = st.initialized
    /\ UNCHANGED <<pc, call, outcome, calls>>
    /\ TextIdle

\* mark_server_initialized() called on its own
MarkServerInitialized ==
    SetFlags(mark_server_initialized(Flags(server_initialized, initialized)))

\* sn_session.mark_initialized() called on its own
MarkInitialized ==
    SetFlags(mark_initialized(Flags(server_initialized, initialized)))

\* the startup hook: both marks
on_startup ==
    SetFlags(mark_initialized(mark_server_initialized(Flags(server_initialized, initialized))))

Unset == <<"unset">>

Init ==
    /\ server_initialized = FALSE
    /\ initialized = FALSE
    /\ pc = "idle"
    /\ call = NoCall
    /\ outcome = NoOutcome
    /\ calls = <<>>
    /\ raw = <<>>
    /\ norms = <<>>
    /\ swapped = Unset
    /\ query = Unset

Next ==
    \/ connect_to_instance
    \/ tool_check_embeddables_enabled
    \/ tool_check_embeddables_plugin
    \/ tool_check_client_access_plugin
    \/ tool_check_cors_rule
    \/ tool_check_all_embeddable_activated
    \/ tool_check_embeddable_activated
    \/ tool_run_all_checks
    \/ NextCall
    \/ MarkServerInitialized
    \/ MarkInitialized
    \/ on_startup

Spec == Init /\ [][Next]_vars

----
\* The text specification: the pure text functions applied to bounded inputs.

RawTexts == {p \o b : p \in {<<>>, HTTP, HTTPS}, b \in Texts(MaxLen)}

ServerIdle == UNCHANGED <<server_initialized, initialized, pc, call, outcome, calls>>

InitText ==
    /\ server_initialized = FALSE
    /\ initialized = FALSE
    /\ pc = "idle"
    /\ call = NoCall
    /\ outcome = NoOutcome
    /\ calls = <<>>
    /\ raw \in RawTexts
    /\ norms = <<>>
    /\ swapped = Unset
    /\ query = Unset

\* connect's normalization, applied to raw and then to its own result.
NormalizeStep ==
    /\ Len(norms) < MaxApply
    /\ norms' = Append(norms, Normalize(IF norms = <<>> THEN raw ELSE norms[Len(norms)]))
    /\ UNCHANGED <<raw, swapped, query>>
    /\ ServerIdle

\* The two steps of the normalization in the other order.
PrependThenStrip ==
    /\ swapped = Unset
    /\ swapped' = StripSlash(PrependScheme(raw))
    /\ UNCHANGED <<raw, norms, query>>
    /\ ServerIdle

\* check_cors_rule's query for raw as the domain.
BuildCorsQuery ==
    /\ query = Unset
    /\ query' = CorsQuery(raw)
    /\ UNCHANGED <<raw, norms, swapped>>
    /\ ServerIdle

NextText == NormalizeStep \/ PrependThenStrip \/ BuildCorsQuery

SpecText == InitText /\ [][NextText]_vars

----
\* Vocabulary of the properties.

Returned == pc = "returned"

\* A text has a scheme when it starts with http:// or https://.
HasScheme(s) == StartsWith(s, HTTPS) \/ StartsWith(s, HTTP)

\* The remote answered this GET with HTTP 200.
Answered200(get) == get.reply.kind = "http" /\ get.reply.status = OK

\* The remote answered this GET with another HTTP status.
AnsweredNot200(get) == get.reply.kind = "http" /\ get.reply.status # OK

Entries == {calls[i] : i \in 1..Len(calls)}

\* The entries of the log that are checks (everything but a bare connect).
CheckEntries == {e \in Entries : e.method # "connect"}

RECURSIVE Flatten(_)
Flatten(log) == IF log = <<>> THEN <<>> ELSE Head(log).gets \o Flatten(Tail(log))

\* Every GET a tool call issued, in order.
AllGets(log) == Flatten(log)

IsDiagnostic(r) ==
    /\ "success" \in DOMAIN r
    /\ r.success \in BOOLEAN
    /\ (~r.success => "error" \in DOMAIN r)

ReportKeys ==
    {"embeddables_enabled", "embeddables_plugin", "client_access_plugin", "cors_rule",
     "embeddable_activation"}

ReportOrder ==
    <<"check_embeddables_enabled", "check_embeddables_plugin", "check_client_access_plugin",
      "check_cors_rule", "check_all_embeddable_activated">>

KeyOf(method) ==
    CASE method = "check_embeddables_enabled" -> "embeddables_enabled"
      [] method = "check_embeddables_plugin" -> "embeddables_plugin"
      [] method = "check_client_access_plugin" -> "client_access_plugin"
      [] method = "check_cors_rule" -> "cors_rule"
      [] method = "check_all_embeddable_activated" -> "embeddable_activation"

\* The entries of the five checks of a run_all_checks call, in the order they ran.
ReportEntries == SubSeq(calls, Len(calls) - 4, Len(calls))

----
\* C1: every tool of the operation surface ends by returning a Diagnostic Result
\* (run_all_checks: a report of them); none raises to its caller.
C1_EveryToolReturns ==
    Returned =>
        /\ outcome.kind = "returned"
        /\ IF call.tool = "run_all_checks"
           THEN \A k \in DOMAIN outcome.value : IsDiagnostic(outcome.value[k])
           ELSE IsDiagnostic(outcome.value)

\* C2: when connect succeeds and the remote answers the check's query with 200 and an
\* empty result array, the enabled check returns success with enabled = false and the
\* plugin status check returns success with active = false.
C2_ZeroRowsIsNotFailure ==
    Returned =>
        \A e \in CheckEntries :
            (/\ e.method \in {"check_embeddables_enabled", "_check_plugin_status",
                              "check_embeddables_plugin", "check_client_access_plugin"}
             /\ Len(e.gets) = 2
             /\ Answered200(e.gets[1])
             /\ e.gets[2].reply = Http(OK, ResultBody(<<>>)))
            => /\ e.result.success
               /\ IF e.method = "check_embeddables_enabled"
                  THEN e.result.enabled = FALSE
                  ELSE e.result.active = FALSE

\* C3: connect's normalization prepends https:// to every raw endpoint without a
\* scheme, strips the trailing slash of every raw endpoint that has one, gives the same
\* result with the two steps in either order, and is idempotent.
C3_NormalizationAlgebra ==
    /\ (Len(norms) >= 1 /\ ~HasScheme(raw)) => StartsWith(norms[1], HTTPS)
    /\ (Len(norms) >= 1 /\ EndsWithSlash(raw)) =>
           norms[1] \in {SubSeq(raw, 1, Len(raw) - 1), HTTPS \o SubSeq(raw, 1, Len(raw) - 1)}
    /\ (Len(norms) >= 1 /\ swapped # Unset) => swapped = norms[1]
    /\ Len(norms) >= 2 => norms[2] = norms[1]

\* C4: run_all_checks runs the five checks in the fixed order and returns a report with
\* all five keys; when exactly one check's own query fails and everything else is
\* answered 200, only that check's key carries success = false.
C4_ReportIsolatesTheFailingCheck ==
    (Returned /\ call.tool = "run_all_checks") =>
        /\ outcome.kind = "returned"
        /\ DOMAIN outcome.value = ReportKeys
        /\ Len(calls) >= 5
        /\ \A k \in 1..5 :
               /\ ReportEntries[k].method = ReportOrder[k]
               /\ outcome.value[KeyOf(ReportOrder[k])] = ReportEntries[k].result
        /\ \A k \in 1..5 :
               (/\ \A j \in 1..5 :
                       /\ Len(ReportEntries[j].gets) = 2
                       /\ Answered200(ReportEntries[j].gets[1])
                       /\ Answered200(ReportEntries[j].gets[2]) <=> j # k)
               => \A j \in 1..5 :
                      outcome.value[KeyOf(ReportOrder[j])].success = (j # k)

\* C5: whenever the remote answers a GET of connect or of a check (the probe or the
\* check's own query) with a status other than 200, that operation returns
\* success = false with an error that contains the status code, and the tool that ran
\* it returns (nothing is raised).
C5_Non200IsReportedWithItsStatus ==
    Returned =>
        \A e \in Entries :
            \A i \in 1..Len(e.gets) :
                AnsweredNot200(e.gets[i]) =>
                    /\ e.result.success = FALSE
                    /\ \E j \in 1..Len(e.result.error) :
                           e.result.error[j] = StatusText(e.gets[i].reply.status)
                    /\ outcome.kind = "returned"
                    /\ call.tool # "run_all_checks" => outcome.value = e.result
                    /\ (call.tool = "run_all_checks" /\ e.method # "connect") =>
                           outcome.value[KeyOf(e.method)] = e.result

C5_Witness ==
    /\ Returned
    /\ \E e \in CheckEntries : Len(e.gets) = 2 /\ AnsweredNot200(e.gets[2])

\* C6: a check issues its own query only after its probe returned success: a failed
\* probe ends the check with the probe's failure as its result after exactly one GET,
\* a successful probe is followed by exactly one more GET.
C6_QueryOnlyAfterProbe ==
    Returned =>
        \A e \in CheckEntries :
            /\ Len(e.gets) >= 1
            /\ e.gets[1].url[Len(e.gets[1].url)] = "?sysparm_limit=1"
            /\ IF Answered200(e.gets[1])
               THEN /\ Len(e.gets) = 2
                    /\ e.gets[2].url[Len(e.gets[2].url)] # "?sysparm_limit=1"
               ELSE /\ Len(e.gets) = 1
                    /\ e.result =
                           [success |-> FALSE,
                            error |-> IF e.gets[1].reply.kind = "http"
                                      THEN <<"HTTP ", StatusText(e.gets[1].reply.status)>>
                                      ELSE e.gets[1].reply.msg]

C6_Witness ==
    /\ Returned
    /\ \E e, f \in CheckEntries :
           /\ Len(e.gets) = 1 /\ ~Answered200(e.gets[1])
           /\ Len(f.gets) = 2 /\ Answered200(f.gets[1])

\* C7: check_cors_rule's sysparm_query: empty for an empty domain; for a domain without
\* a scheme the three clauses on https://<domain>, http://<domain> and <domain> (its
\* trailing slash stripped) joined by OR; for a domain with a scheme the one clause
\* domain=<domain>.
C7_CorsQueryByScheme ==
    query # Unset =>
        query =
            IF raw = <<>> THEN <<>>
            ELSE IF ~HasScheme(raw)
                 THEN LET d == IF EndsWithSlash(raw) THEN SubSeq(raw, 1, Len(raw) - 1)
                               ELSE raw
                      IN <<"domain=">> \o HTTPS \o d \o <<"^ORdomain=">> \o HTTP \o d
                             \o <<"^ORdomain=">> \o d
                 ELSE <<"domain=">> \o raw

\* C8: a successful check_embeddable_activated reports count = number of rows,
\* found = (count > 0) and all_active = (at least one row and every row's active field
\* is "true").
C8_ActivationSummary ==
    (Returned /\ call.tool = "check_embeddable_activated" /\ outcome.value.success) =>
        LET body == calls[1].gets[2].reply.body
            rows == IF body.hasResult THEN body.rows ELSE <<>>
            v == outcome.value
        IN /\ v.count = Len(rows)
           /\ v.found = (v.count > 0)
           /\ v.all_active =
                  (Len(rows) >= 1 /\ \A i \in 1..Len(rows) : rows[i].active = "true")

C8_Witness ==
    /\ Returned
    /\ call.tool = "check_embeddable_activated"
    /\ outcome.value.success
    /\ outcome.value.count = 0
    /\ outcome.value.all_active = FALSE

\* C9: a check's own query goes to the same normalized base URL as its probe.
C9_QueryUsesNormalizedBase ==
    Returned =>
        \A e \in CheckEntries :
            Len(e.gets) = 2 =>
                LET probe == e.gets[1].url
                    own == e.gets[2].url
                IN SubSeq(own, 1, Len(own) - 5) = SubSeq(probe, 1, Len(probe) - 6)

\* The GETs of a call without the leading connect of run_all_checks.
WithoutLead(tool, flag, gets) ==
    IF tool = "run_all_checks" /\ ~flag THEN Tail(gets) ELSE gets

\* C10 as stated: with the same inputs and the same remote answers every tool returns
\* the same result and issues the same GETs whatever the two flags were.
C10_FlagsChangeNothing ==
    Returned =>
        \A s, i \in BOOLEAN :
            \A r \in {Invoke(call, Flags(s, i))} :
                r.outcome = outcome /\ AllGets(r.calls) = AllGets(calls)

\* C10 amended: whatever the two flags were, every tool returns the same result and
\* issues the same GETs, except that run_all_checks issues one more GET first, the
\* connectivity probe, when the session's initialized flag is unset.
C10_FlagsOnlyAddLeadingProbe ==
    Returned =>
        \A s, i \in BOOLEAN :
          \A r \in {Invoke(call, Flags(s, i))} :
            \A gets \in {AllGets(r.calls)} :
              \A rest \in {WithoutLead(call.tool, i, gets)} :
                /\ r.outcome = outcome
                /\ rest = WithoutLead(call.tool, call.was.initialized, AllGets(calls))
                /\ (call.tool = "run_all_checks" /\ ~i) =>
                       /\ gets[1].url
                              = Table(Normalize(call.instance_url), "sys_properties")
                                    \o <<"?sysparm_limit=1">>
                       /\ Len(gets) = 1 + Len(rest)
                /\ (call.tool = "run_all_checks" /\ i) =>
                       Len(gets) = Len(AllGets(ReportEntries))

C10_Witness ==
    /\ Returned
    /\ call.tool = "run_all_checks"
    /\ ~call.was.initialized
    /\ Len(calls) = 6
    /\ \E k \in 2..6 : Len(calls[k].gets) = 2

====
